---- MODULE Spec2Model ----
(***************************************************************************)
(* A model of ts-esm-migrate (src/src/index.mts): the file walker, the     *)
(* specifier resolver updateImportPath, the syntax visitor, the blank-line *)
(* round trip and the concurrent per-file pipelines of the run driver.     *)
(*                                                                         *)
(* Strings are sequences of one-character strings, so that startsWith,     *)
(* endsWith, concatenation and path.join are computed as the program       *)
(* computes them.                                                          *)
(***************************************************************************)
EXTENDS Integers, Sequences, FiniteSets, TLC

VARIABLES
    visited,              \* the File Index (line 38): a set of absolute paths
    jsx,                  \* values.jsx (line 10)
    currentVisitingFile,  \* line 41
    hasUpdate,            \* line 42; undefined until line 101 runs, read as false
    specText,             \* resolver runs: the specifier as it stands in the file
    history,              \* resolver runs: one record per run of the tool
    fsTree,               \* walker: the directory entries under the working folder
    walkOut,              \* walker: paths yielded by walk() and not yet consumed
    yielded,              \* walker: every path yielded so far, in order
    ast,                  \* visitor: the source file's syntax tree
    astOut,               \* visitor: the transformed tree
    fileText,             \* serializer: the text read from the file
    written,              \* serializer: the text handed to writeFile
    prettierConfig,       \* driver: whether --prettier gave a configuration (line 21)
    disk,                 \* driver: the text of every indexed file
    pc,                   \* driver: where each file's pipeline stands
    local,                \* driver: each pipeline's local constants
    running,              \* driver: the pipeline holding the JavaScript thread
    opened,               \* driver: the paths passed to writeFile, in call order
    outcomes,             \* driver: the settled pipelines, in the order they settled
    settled               \* driver: whether the awaited Promise.allSettled resolved

varsR == <<specText, history>>
varsW == <<fsTree, walkOut, yielded>>
varsV == <<ast, astOut>>
varsT == <<fileText, written>>
varsD == <<prettierConfig, disk, pc, local, running, opened, outcomes, settled>>
varsG == <<visited, jsx, currentVisitingFile, hasUpdate>>

vars == <<visited, jsx, currentVisitingFile, hasUpdate, specText, history,
          fsTree, walkOut, yielded, ast, astOut, fileText, written,
          prettierConfig, disk, pc, local, running, opened, outcomes, settled>>

-----------------------------------------------------------------------------
(* Strings *)

StartsWith(s, p) == Len(s) >= Len(p) /\ SubSeq(s, 1, Len(p)) = p

EndsWith(s, p) == Len(s) >= Len(p) /\ SubSeq(s, Len(s) - Len(p) + 1, Len(s)) = p

Dot == <<".">>
Slash == <<"/">>
ParentDir == <<".", ".", "/">>
ExtJs == <<".", "j", "s">>
ExtJsx == <<".", "j", "s", "x">>
ExtTs == <<".", "t", "s">>
ExtDts == <<".", "d", ".", "t", "s">>
ExtTsx == <<".", "t", "s", "x">>
IndexTs == <<"i", "n", "d", "e", "x", ".", "t", "s">>
IndexDts == <<"i", "n", "d", "e", "x", ".", "d", ".", "t", "s">>
IndexTsx == <<"i", "n", "d", "e", "x", ".", "t", "s", "x">>
SlashIndexJs == <<"/", "i", "n", "d", "e", "x", ".", "j", "s">>
SlashIndexJsx == <<"/", "i", "n", "d", "e", "x", ".", "j", "s", "x">>
NodeModules == <<"n", "o", "d", "e", "_", "m", "o", "d", "u", "l", "e", "s">>

-----------------------------------------------------------------------------
(* node:path join on a POSIX host *)

RECURSIVE Segments(_, _, _, _)
\* path.split('/'), scanning from character i
Segments(s, i, cur, acc) ==
    IF i > Len(s) THEN Append(acc, cur)
    ELSE IF s[i] = "/" THEN Segments(s, i + 1, <<>>, Append(acc, cur))
    ELSE Segments(s, i + 1, Append(cur, s[i]), acc)

RECURSIVE NormalizeSegments(_, _, _, _)
\* normalizeString: drop '' and '.', let '..' remove the segment before it
NormalizeSegments(segs, i, stack, allowAboveRoot) ==
    IF i > Len(segs) THEN stack
    ELSE LET seg == segs[i] IN
         IF seg = <<>> \/ seg = Dot
         THEN NormalizeSegments(segs, i + 1, stack, allowAboveRoot)
         ELSE IF seg = <<".", ".">>
         THEN IF Len(stack) > 0 /\ stack[Len(stack)] # <<".", ".">>
              THEN NormalizeSegments(segs, i + 1, SubSeq(stack, 1, Len(stack) - 1),
                                     allowAboveRoot)
              ELSE IF allowAboveRoot
              THEN NormalizeSegments(segs, i + 1, Append(stack, seg), allowAboveRoot)
              ELSE NormalizeSegments(segs, i + 1, stack, allowAboveRoot)
         ELSE NormalizeSegments(segs, i + 1, Append(stack, seg), allowAboveRoot)

RECURSIVE JoinWith(_, _)
\* segments.join(sep)
JoinWith(segs, sep) ==
    IF Len(segs) = 0 THEN <<>>
    ELSE IF Len(segs) = 1 THEN segs[1]
    ELSE segs[1] \o sep \o JoinWith(Tail(segs), sep)

\* path.normalize
Normalize(path) ==
    IF Len(path) = 0 THEN Dot
    ELSE LET isAbsolute == path[1] = "/"
             trailingSeparator == path[Len(path)] = "/"
             body == JoinWith(NormalizeSegments(Segments(path, 1, <<>>, <<>>), 1, <<>>,
                                                ~isAbsolute), Slash)
         IN  IF Len(body) = 0
             THEN IF isAbsolute THEN Slash
                  ELSE IF trailingSeparator THEN <<".", "/">> ELSE Dot
             ELSE (IF isAbsolute THEN Slash ELSE <<>>) \o body
                  \o (IF trailingSeparator THEN Slash ELSE <<>>)

\* path.join(...args): the non-empty arguments joined by '/', then normalized
Join(args) ==
    LET nonEmpty == SelectSeq(args, LAMBDA a : Len(a) > 0)
    IN  IF Len(nonEmpty) = 0 THEN Dot ELSE Normalize(JoinWith(nonEmpty, Slash))

-----------------------------------------------------------------------------
(* Syntax nodes: [kind, text, kids] *)

Node(k, t, c) == [kind |-> k, text |-> t, kids |-> c]

Undefined == Node("undefined", <<>>, <<>>)

StringLiteral(t) == Node("StringLiteral", t, <<>>)

-----------------------------------------------------------------------------
(* The Specifier Resolver, updateImportPath *)

\* The mutated resolution: the specifier joined to the file itself.
ResolutionAgainstFile(file, spec) == Join(<<file, spec>>)

\* line 125
Resolution(file, spec) == Join(<<file, ParentDir, spec>>)

\* The mutated order: the directory-index forms tested before the file forms.
MatchFormIndexFirst(resolution, index) ==
    IF Join(<<resolution, IndexTs>>) \in index \/ Join(<<resolution, IndexDts>>) \in index
    THEN "indexTs"
    ELSE IF Join(<<resolution, IndexTsx>>) \in index THEN "indexTsx"
    ELSE IF (resolution \o ExtTs) \in index \/ (resolution \o ExtDts) \in index THEN "ts"
    ELSE IF (resolution \o ExtTsx) \in index THEN "tsx"
    ELSE "none"

\* lines 126-138: the first Index form that matches
MatchForm(resolution, index) ==
    IF (resolution \o ExtTs) \in index \/ (resolution \o ExtDts) \in index THEN "ts"
    ELSE IF (resolution \o ExtTsx) \in index THEN "tsx"
    ELSE IF Join(<<resolution, IndexTs>>) \in index \/ Join(<<resolution, IndexDts>>) \in index
    THEN "indexTs"
    ELSE IF Join(<<resolution, IndexTsx>>) \in index THEN "indexTsx"
    ELSE "none"

\* The mutated suffix table: the flag applied to the .ts forms as well.
SuffixFlagEverywhere(form, jsxFlag) ==
    IF form \in {"ts", "tsx"} THEN (IF jsxFlag THEN ExtJsx ELSE ExtJs)
    ELSE IF jsxFlag THEN SlashIndexJsx ELSE SlashIndexJs

\* lines 128, 131, 134, 137: the suffix appended for a matched form
Suffix(form, jsxFlag) ==
    IF form = "ts" THEN ExtJs
    ELSE IF form = "tsx" THEN (IF jsxFlag THEN ExtJsx ELSE ExtJs)
    ELSE IF form = "indexTs" THEN SlashIndexJs
    ELSE IF jsxFlag THEN SlashIndexJsx ELSE SlashIndexJs

\* lines 118-140. The result carries the node returned and whether the call
\* executed `hasUpdate = true`.
UpdateImportPath(node, file, index, jsxFlag) ==
    IF node = Undefined THEN [node |-> node, hasUpdate |-> FALSE]
    ELSE IF node.kind # "StringLiteral" THEN [node |-> node, hasUpdate |-> FALSE]
    ELSE LET spec == node.text IN
         IF ~StartsWith(spec, Dot) THEN [node |-> node, hasUpdate |-> FALSE]
         ELSE IF EndsWith(spec, ExtJs) THEN [node |-> node, hasUpdate |-> FALSE]
         ELSE LET form == MatchForm(Resolution(file, spec), index) IN
              IF form = "none" THEN [node |-> node, hasUpdate |-> FALSE]
              ELSE [node |-> StringLiteral(spec \o Suffix(form, jsxFlag)),
                    hasUpdate |-> TRUE]

-----------------------------------------------------------------------------
(* Values of the variables a run does not use *)

NoFile == <<"undefined">>

RECURSIVE SubsetsUpTo(_, _)
\* The subsets of S with at most n elements.
SubsetsUpTo(S, n) ==
    IF n = 0 THEN {{}}
    ELSE LET smaller == SubsetsUpTo(S, n - 1)
         IN  smaller \cup {X \cup {e} : X \in smaller, e \in S}

IdleR == specText = <<>> /\ history = <<>>
IdleW == fsTree = <<>> /\ walkOut = <<>> /\ yielded = <<>>
IdleV == ast = Undefined /\ astOut = Undefined
IdleT == fileText = <<>> /\ written = <<>>
IdleD ==
    /\ prettierConfig = FALSE
    /\ disk = <<>>
    /\ pc = <<>>
    /\ local = <<>>
    /\ running = NoFile
    /\ opened = <<>>
    /\ outcomes = <<>>
    /\ settled = FALSE

-----------------------------------------------------------------------------
(* Runs of the resolver on one specifier of one file, the tool run MaxRuns  *)
(* times in succession on the same folder                                   *)

MaxRuns == 2
MaxIndexed == 2

Root == <<"/", "r">>

\* The files that hold the specifier.
HostFiles == {Root \o <<"/", "m", ".", "t", "s">>,
              Root \o <<"/", "d", "/", "m", ".", "t", "s", "x">>}

\* The files a specifier may name.
TargetFiles ==
    {Root \o <<"/", "a">> \o ExtTs,
     Root \o <<"/", "a">> \o ExtDts,
     Root \o <<"/", "a">> \o ExtTsx,
     Root \o <<"/", "a", "/">> \o IndexTs,
     Root \o <<"/", "a", "/">> \o IndexDts,
     Root \o <<"/", "a", "/">> \o IndexTsx,
     Root \o <<"/", "a">> \o ExtJsx \o ExtTs,
     Root \o <<"/", "a">> \o ExtJs \o ExtTs,
     Root \o <<"/", "a">> \o ExtJsx \o <<"/">> \o IndexTs,
     Root \o <<"/", "d", "/", "a">> \o ExtTs}

Specifiers ==
    {<<".", "/", "a">>,
     <<".", ".", "/", "a">>,
     <<".", "/", "a", "/">>,
     <<".", "/", "d", "/", ".", ".", "/", "a">>,
     <<".", "/", "a", ".", "d">>,
     <<".", "/", "a">> \o ExtJs,
     <<".", "/", "a">> \o ExtJsx,
     <<".", "/", "a", "/", "i", "n", "d", "e", "x">>,
     <<".", "/", "b">>,
     <<"a">>,
     <<".">>}

Indexes == {{h} \cup X : h \in HostFiles, X \in SubsetsUpTo(TargetFiles, MaxIndexed)}

InitResolve ==
    /\ visited \in Indexes
    /\ jsx \in BOOLEAN
    /\ currentVisitingFile \in visited \cap HostFiles
    /\ hasUpdate = FALSE
    /\ specText \in Specifiers
    /\ history = <<>>
    /\ IdleW /\ IdleV /\ IdleT /\ IdleD

\* One run of the tool over the file: lines 101-103 with the file's one
\* specifier; a rewritten file is written back (line 110), so the next run
\* reads the rewritten specifier.
RunResolver ==
    /\ Len(history) < MaxRuns
    /\ LET r == UpdateImportPath(StringLiteral(specText), currentVisitingFile, visited, jsx)
       IN  /\ hasUpdate' = r.hasUpdate
           /\ specText' = r.node.text
           /\ history' = Append(history, [in |-> specText, out |-> r.node.text,
                                          hasUpdate |-> r.hasUpdate])
    /\ UNCHANGED <<visited, jsx, currentVisitingFile, varsW, varsV, varsT, varsD>>

NextResolve == RunResolver

SpecResolve == InitResolve /\ [][NextResolve]_vars

-----------------------------------------------------------------------------
(* The File Index Builder: walk() and the loop that fills `visited`.        *)
(* The file system under the working folder is a set of files, each with the *)
(* directories leading to it, its name and its Dirent type.                  *)

MaxDepth == 2
MaxFiles == 2

DirNames == {NodeModules, <<"d">>}

DirentNames ==
    {[name |-> <<"a">> \o ExtTs, type |-> "file"],
     [name |-> <<"b">> \o ExtTsx, type |-> "file"],
     [name |-> <<"c">> \o ExtJs, type |-> "file"],
     [name |-> <<"l">> \o ExtTs, type |-> "symlink"]}

DirChains == UNION {[1..n -> DirNames] : n \in 0..MaxDepth}

FsFiles == {[dirs |-> d, name |-> e.name, type |-> e.type] : d \in DirChains, e \in DirentNames}

FileSystems == SubsetsUpTo(FsFiles, MaxFiles)

\* readdir(folder, { withFileTypes: true }) of the folder reached through `dirs`
ReadDir(fs, dirs) ==
    {[name |-> f.name, type |-> f.type] : f \in {g \in fs : g.dirs = dirs}}
    \cup {[name |-> f.dirs[Len(dirs) + 1], type |-> "dir"] :
             f \in {g \in fs : /\ Len(g.dirs) > Len(dirs)
                                /\ SubSeq(g.dirs, 1, Len(dirs)) = dirs}}

RECURSIVE SetToSeq(_)
\* the array readdir returns, in some order
SetToSeq(S) ==
    IF S = {} THEN <<>> ELSE LET x == CHOOSE y \in S : TRUE IN <<x>> \o SetToSeq(S \ {x})

\* line 31
IsSourceName(name) == EndsWith(name, ExtTs) \/ EndsWith(name, ExtTsx)

\* The mutated test: every directory is descended into.
DescendAll(name) == TRUE

\* line 33
Descend(name) == name # NodeModules

RECURSIVE Walk(_, _, _)
RECURSIVE WalkItems(_, _, _, _)
\* lines 28-35: the paths yielded for the items of one folder, in order
WalkItems(fs, folder, dirs, items) ==
    IF items = <<>> THEN <<>>
    ELSE LET item == Head(items)
             here == IF item.type = "file"
                     THEN IF IsSourceName(item.name)
                          THEN <<Join(<<folder, item.name>>)>>
                          ELSE <<>>
                     ELSE IF item.type = "dir"
                     THEN IF Descend(item.name)
                          THEN Walk(fs, Join(<<folder, item.name>>), Append(dirs, item.name))
                          ELSE <<>>
                     ELSE <<>>
         IN  here \o WalkItems(fs, folder, dirs, Tail(items))

\* lines 27-36
Walk(fs, folder, dirs) == WalkItems(fs, folder, dirs, SetToSeq(ReadDir(fs, dirs)))

\* line 19
WorkingFolder == Root

InitWalk ==
    /\ fsTree \in FileSystems
    /\ walkOut = Walk(fsTree, WorkingFolder, <<>>)
    /\ yielded = <<>>
    /\ visited = {}
    /\ jsx = FALSE
    /\ currentVisitingFile = NoFile
    /\ hasUpdate = FALSE
    /\ IdleR /\ IdleV /\ IdleT /\ IdleD

\* line 39: one iteration of `for await (const p of walk(workingFolder))`
VisitedAdd ==
    /\ walkOut # <<>>
    /\ visited' = visited \cup {Head(walkOut)}
    /\ yielded' = Append(yielded, Head(walkOut))
    /\ walkOut' = Tail(walkOut)
    /\ UNCHANGED <<fsTree, jsx, currentVisitingFile, hasUpdate, varsR, varsV, varsT, varsD>>

NextWalk == VisitedAdd

SpecWalk == InitWalk /\ [][NextWalk]_vars

\* The absolute path of a file of the file system.
PathOf(f) == WorkingFolder \o Slash \o JoinWith(Append(f.dirs, f.name), Slash)

UnderNodeModules(f) == \E i \in 1..Len(f.dirs) : f.dirs[i] = NodeModules

\* C8: no file under a directory named node_modules, at any depth, is ever
\* yielded or added to the Index; once the walk is over every other regular
\* file whose name ends in .ts or .tsx is in the Index and was yielded exactly
\* once, and the Index holds nothing else.
C8_VendorExclusion ==
    /\ \A f \in fsTree : UnderNodeModules(f) =>
           /\ PathOf(f) \notin visited
           /\ \A i \in 1..Len(walkOut) : walkOut[i] # PathOf(f)
    /\ walkOut = <<>> =>
           /\ \A f \in fsTree :
                  (f.type = "file" /\ IsSourceName(f.name) /\ ~UnderNodeModules(f)) =>
                      /\ PathOf(f) \in visited
                      /\ Cardinality({i \in 1..Len(yielded) : yielded[i] = PathOf(f)}) = 1
           /\ \A p \in visited :
                  \E f \in fsTree : PathOf(f) = p /\ f.type = "file" /\ IsSourceName(f.name)

\* C8 witness: the walk is over, it indexed a file and it skipped a source
\* file that lies below a node_modules directory inside another directory.
C8_Witness ==
    /\ walkOut = <<>>
    /\ visited # {}
    /\ \E f \in fsTree :
           /\ f.type = "file" /\ IsSourceName(f.name)
           /\ Len(f.dirs) = 2 /\ f.dirs[1] # NodeModules /\ f.dirs[2] = NodeModules
           /\ PathOf(f) \notin visited

-----------------------------------------------------------------------------
(* The Syntax Visitor.  A node's kids are, by kind:                          *)
(*   ImportDeclaration  <<moduleSpecifier>>                                  *)
(*   ExportDeclaration  <<>> or <<moduleSpecifier>>                          *)
(*   CallExpression     <<expression>> \o arguments                          *)
(*   ImportType         <<argument>> \o typeArguments                        *)
(*   LiteralType        <<literal>>                                          *)
(*   any other kind     its children                                         *)

RECURSIVE Visit(_, _, _, _)
RECURSIVE VisitEachChild(_, _, _, _, _)

\* ts.visitEachChild: visit applied to the children from the i-th on
VisitEachChild(kids, i, file, index, jsxFlag) ==
    IF i > Len(kids) THEN [kids |-> <<>>, hasUpdate |-> FALSE]
    ELSE LET first == Visit(kids[i], file, index, jsxFlag)
             rest == VisitEachChild(kids, i + 1, file, index, jsxFlag)
         IN  [kids |-> <<first.node>> \o rest.kids,
              hasUpdate |-> first.hasUpdate \/ rest.hasUpdate]

\* lines 45-87. The result carries the node returned and whether any call of
\* updateImportPath made on the way executed `hasUpdate = true`.
Visit(node, file, index, jsxFlag) ==
    LET descend == VisitEachChild(node.kids, 1, file, index, jsxFlag)
        structural == [node |-> Node(node.kind, node.text, descend.kids),
                       hasUpdate |-> descend.hasUpdate]
    IN  IF node.kind = "SourceFile" THEN structural
        ELSE IF node.kind = "ImportDeclaration"
        THEN LET r == UpdateImportPath(node.kids[1], file, index, jsxFlag)
             IN  [node |-> Node(node.kind, node.text, <<r.node>>), hasUpdate |-> r.hasUpdate]
        ELSE IF node.kind = "ExportDeclaration"
        THEN LET r == UpdateImportPath(IF node.kids = <<>> THEN Undefined ELSE node.kids[1],
                                       file, index, jsxFlag)
             IN  [node |-> Node(node.kind, node.text,
                                IF r.node = Undefined THEN <<>> ELSE <<r.node>>),
                  hasUpdate |-> r.hasUpdate]
        ELSE IF /\ node.kind = "CallExpression"
                /\ node.kids[1].kind = "ImportKeyword"
                /\ Len(node.kids) >= 2
        THEN LET r == UpdateImportPath(node.kids[2], file, index, jsxFlag)
             IN  [node |-> Node(node.kind, node.text,
                                <<node.kids[1], r.node>> \o SubSeq(node.kids, 3, Len(node.kids))),
                  hasUpdate |-> r.hasUpdate]
        ELSE IF /\ node.kind = "ImportType"
                /\ node.kids[1].kind = "LiteralType"
                /\ node.kids[1].kids[1].kind = "StringLiteral"
        THEN LET r == UpdateImportPath(node.kids[1].kids[1], file, index, jsxFlag)
             IN  [node |-> Node(node.kind, node.text,
                                <<Node("LiteralType", <<>>, <<r.node>>)>>
                                \o SubSeq(node.kids, 2, Len(node.kids))),
                  hasUpdate |-> r.hasUpdate]
        ELSE structural

-----------------------------------------------------------------------------
(* Runs of the visitor on one source file *)

MaxNesting == 2

DotSlashA == <<".", "/", "a">>
DotSlashB == <<".", "/", "b">>
FileATs == Root \o <<"/", "a">> \o ExtTs
FileATsx == Root \o <<"/", "a">> \o ExtTsx
FileAIndexTs == Root \o <<"/", "a", "/">> \o IndexTs
FileAIndexTsx == Root \o <<"/", "a", "/">> \o IndexTsx
FileAJsxTs == Root \o <<"/", "a">> \o ExtJsx \o ExtTs
FileBIndexTs == Root \o <<"/", "b", "/">> \o IndexTs
HostM == Root \o <<"/", "m", ".", "t", "s">>

Identifier == Node("Identifier", <<"x">>, <<>>)
ImportKeyword == Node("ImportKeyword", <<>>, <<>>)
LiteralType(lit) == Node("LiteralType", <<>>, <<lit>>)

SpecifierLiterals == {StringLiteral(DotSlashA), StringLiteral(DotSlashB), StringLiteral(<<"p">>)}

RECURSIVE Expressions(_)
RECURSIVE Types(_)
\* The expressions nested at most n deep.
Expressions(n) ==
    IF n = 0 THEN SpecifierLiterals \cup {Identifier}
    ELSE Expressions(n - 1)
         \cup {Node("CallExpression", <<>>, <<ImportKeyword>>)}
         \cup {Node("CallExpression", <<>>, <<ImportKeyword, e>>) : e \in Expressions(n - 1)}
         \cup {Node("CallExpression", <<>>, <<ImportKeyword, StringLiteral(DotSlashA), e>>) :
                  e \in Expressions(n - 1)}
         \cup {Node("CallExpression", <<>>, <<Identifier, e>>) : e \in Expressions(n - 1)}
         \cup {Node("AsExpression", <<>>, <<Identifier, t>>) : t \in Types(n - 1)}

\* The types nested at most n deep.
Types(n) ==
    IF n = 0 THEN {Node("TypeReference", <<"T">>, <<>>), LiteralType(StringLiteral(DotSlashA))}
    ELSE Types(n - 1)
         \cup {Node("ImportType", <<>>, <<LiteralType(l)>>) : l \in SpecifierLiterals}
         \cup {Node("ImportType", <<>>, <<LiteralType(StringLiteral(DotSlashB)), t>>) :
                  t \in Types(n - 1)}
         \cup {Node("ImportType", <<>>, <<Node("TypeReference", <<"T">>, <<>>)>>)}
         \cup {Node("ArrayType", <<>>, <<t>>) : t \in Types(n - 1)}

Statements ==
    {Node("ImportDeclaration", <<>>, <<l>>) : l \in SpecifierLiterals}
    \cup {Node("ExportDeclaration", <<>>, <<l>>) : l \in SpecifierLiterals}
    \cup {Node("ExportDeclaration", <<>>, <<>>)}
    \cup {Node("ExpressionStatement", <<>>, <<e>>) : e \in Expressions(MaxNesting)}
    \cup {Node("TypeAliasDeclaration", <<>>, <<t>>) : t \in Types(MaxNesting)}

SourceFiles ==
    {Node("SourceFile", <<>>, <<st>>) : st \in Statements}
    \cup {Node("SourceFile", <<>>, <<Node("Block", <<>>, <<st>>),
                                     Node("ExportDeclaration", <<>>, <<>>)>>) : st \in Statements}

VisitIndexes == {{HostM, FileATs}, {HostM, FileATsx, FileBIndexTs}}

InitVisit ==
    /\ ast \in SourceFiles
    /\ astOut = Undefined
    /\ visited \in VisitIndexes
    /\ jsx \in BOOLEAN
    /\ currentVisitingFile = NoFile
    /\ hasUpdate = FALSE
    /\ IdleR /\ IdleW /\ IdleT /\ IdleD

\* lines 101-103 for the file HostM
TransformFile ==
    /\ astOut = Undefined
    /\ LET r == Visit(ast, HostM, visited, jsx)
       IN  /\ hasUpdate' = r.hasUpdate
           /\ astOut' = r.node
    /\ currentVisitingFile' = HostM
    /\ UNCHANGED <<ast, visited, jsx, varsR, varsW, varsT, varsD>>

NextVisit == TransformFile

SpecVisit == InitVisit /\ [][NextVisit]_vars

RECURSIVE RewriteAll(_, _, _, _)
RECURSIVE RewriteKids(_, _, _, _, _)
RewriteKids(kids, i, file, index, jsxFlag) ==
    IF i > Len(kids) THEN <<>>
    ELSE <<RewriteAll(kids[i], file, index, jsxFlag)>>
         \o RewriteKids(kids, i + 1, file, index, jsxFlag)

\* The tree in which every string-literal specifier of the four positions has
\* gone through the resolver, at every depth; a specifier that is absent or is
\* not a string literal stays as it is.
RewriteAll(node, file, index, jsxFlag) ==
    LET resolved(n) == UpdateImportPath(n, file, index, jsxFlag).node IN
    IF node.kind \in {"ImportDeclaration", "ExportDeclaration"}
    THEN Node(node.kind, node.text,
              IF node.kids = <<>> THEN <<>> ELSE <<resolved(node.kids[1])>>)
    ELSE IF /\ node.kind = "CallExpression"
            /\ node.kids[1].kind = "ImportKeyword"
            /\ Len(node.kids) >= 2
    THEN Node(node.kind, node.text,
              <<node.kids[1], resolved(node.kids[2])>>
              \o RewriteKids(node.kids, 3, file, index, jsxFlag))
    ELSE IF /\ node.kind = "ImportType"
            /\ node.kids[1].kind = "LiteralType"
            /\ node.kids[1].kids[1].kind = "StringLiteral"
    THEN Node(node.kind, node.text,
              <<LiteralType(resolved(node.kids[1].kids[1]))>>
              \o RewriteKids(node.kids, 2, file, index, jsxFlag))
    ELSE Node(node.kind, node.text, RewriteKids(node.kids, 1, file, index, jsxFlag))

\* C10: after the transform every string-literal specifier in one of the four
\* specifier positions has been passed to the resolver, wherever its node sits
\* in the tree, also inside the type arguments of an import-type or the
\* remaining arguments of a dynamic import, and nothing else has changed.
C10_VisitorCompleteness ==
    astOut # Undefined => astOut = RewriteAll(ast, HostM, visited, jsx)

-----------------------------------------------------------------------------
(* The Round-Trip Serializer.  A text is a sequence of tokens: line feeds,   *)
(* carriage returns, spaces, occurrences of the sentinel comment, and        *)
(* top-level statements (syntax nodes).                                      *)

LineFeed == Node("LineFeed", <<>>, <<>>)
CarriageReturn == Node("CarriageReturn", <<>>, <<>>)
Space == Node("Space", <<>>, <<>>)
\* the text `/** THIS_IS_A_NEWLINE **/`
Sentinel == Node("Sentinel", <<>>, <<>>)

IsLineBreak(tok) == tok \in {LineFeed, CarriageReturn}
IsTrivia(tok) == tok \in {LineFeed, CarriageReturn, Space, Sentinel}

RECURSIVE ReplaceDoubleNewline(_, _)
\* line 96: file.replace(/\n\n/g, '\n/** THIS_IS_A_NEWLINE **/'), from token i
ReplaceDoubleNewline(text, i) ==
    IF i > Len(text) THEN <<>>
    ELSE IF i < Len(text) /\ text[i] = LineFeed /\ text[i + 1] = LineFeed
    THEN <<LineFeed, Sentinel>> \o ReplaceDoubleNewline(text, i + 2)
    ELSE <<text[i]>> \o ReplaceDoubleNewline(text, i + 1)

\* The mutated restoration: the sentinel comments are deleted.
DropSentinel(text) == SelectSeq(text, LAMBDA tok : tok # Sentinel)

\* line 105: .replace(/\/\*\* THIS_IS_A_NEWLINE \*\*\//g, '\n')
ReplaceSentinel(text) ==
    [i \in 1..Len(text) |-> IF text[i] = Sentinel THEN LineFeed ELSE text[i]]

\* lines 94-100: the statements of the parsed text, in order
CreateSourceFile(text) ==
    Node("SourceFile", <<>>, SelectSeq(text, LAMBDA tok : ~IsTrivia(tok)))

RECURSIVE BreakFollows(_, _)
\* whether the comment before token i is followed by a line break
BreakFollows(text, i) ==
    IF i > Len(text) THEN FALSE
    ELSE IF text[i] = Space THEN BreakFollows(text, i + 1)
    ELSE IsLineBreak(text[i])

RECURSIVE PrintTokens(_, _, _, _, _)
\* printer.printFile: every statement on a line of its own, the comments of
\* the parsed text kept (a leading comment followed by the line break it had,
\* or by a space), all other white space of the parsed text dropped.
\* `open` says that a statement was written and its line not yet ended.
PrintTokens(text, i, k, open, statements) ==
    IF i > Len(text) THEN (IF open THEN <<LineFeed>> ELSE <<>>)
    ELSE IF IsLineBreak(text[i])
    THEN (IF open THEN <<LineFeed>> ELSE <<>>)
         \o PrintTokens(text, i + 1, k, FALSE, statements)
    ELSE IF text[i] = Space THEN PrintTokens(text, i + 1, k, open, statements)
    ELSE IF text[i] = Sentinel
    THEN IF open
         THEN <<Space, Sentinel>> \o PrintTokens(text, i + 1, k, open, statements)
         ELSE <<Sentinel, IF BreakFollows(text, i + 1) THEN LineFeed ELSE Space>>
              \o PrintTokens(text, i + 1, k, open, statements)
    ELSE (IF open THEN <<LineFeed>> ELSE <<>>) \o <<statements[k + 1]>>
         \o PrintTokens(text, i + 1, k + 1, TRUE, statements)

\* line 105: printer.printFile(result.transformed[0]); `text` is the text the
\* transformed file was parsed from
PrintFile(sourceFile, text) == PrintTokens(text, 1, 0, FALSE, sourceFile.kids)

-----------------------------------------------------------------------------
(* Runs of the pipeline on one file of two statements *)

MaxGap == 4

GapTokens == {LineFeed, CarriageReturn, Space, Sentinel}

\* The white space and comments between two statements; a carriage return is
\* the first half of a CR LF line ending.
Gaps == {gap \in UNION {[1..n -> GapTokens] : n \in 0..MaxGap} :
            \A i \in 1..Len(gap) :
                gap[i] = CarriageReturn => (i < Len(gap) /\ gap[i + 1] = LineFeed)}

ImportA == Node("ImportDeclaration", <<>>, <<StringLiteral(DotSlashA)>>)
ImportBare == Node("ImportDeclaration", <<>>, <<StringLiteral(<<"p">>)>>)
Statement == Node("ExpressionStatement", <<>>, <<Identifier>>)

Texts == {<<first>> \o gap \o <<Statement>> \o tail :
            first \in {ImportA, ImportBare}, gap \in Gaps,
            tail \in {<<>>, <<LineFeed>>}}

InitText ==
    /\ fileText \in Texts
    /\ written = <<>>
    /\ visited = {HostM, FileATs}
    /\ jsx = FALSE
    /\ currentVisitingFile = NoFile
    /\ hasUpdate = FALSE
    /\ IdleR /\ IdleW /\ IdleV /\ IdleD

\* lines 93-110 for the file HostM, without a formatter
RewriteFile ==
    /\ currentVisitingFile = NoFile
    /\ LET text == ReplaceDoubleNewline(fileText, 1)
           source == CreateSourceFile(text)
           r == Visit(source, HostM, visited, jsx)
       IN  /\ hasUpdate' = r.hasUpdate
           /\ written' = IF ~r.hasUpdate THEN written
                         ELSE ReplaceSentinel(PrintFile(r.node, text))
    /\ currentVisitingFile' = HostM
    /\ UNCHANGED <<fileText, visited, jsx, varsR, varsW, varsV, varsD>>

NextText == RewriteFile

SpecText == InitText /\ [][NextText]_vars

RECURSIVE StatementAt(_, _, _)
\* the position of the n-th statement of a text, looked for from token i
StatementAt(text, n, i) ==
    IF i > Len(text) THEN 0
    ELSE IF IsTrivia(text[i]) THEN StatementAt(text, n, i + 1)
    ELSE IF n = 1 THEN i ELSE StatementAt(text, n - 1, i + 1)

\* The tokens between the first and the second statement of a text.
GapOf(text) ==
    SubSeq(text, StatementAt(text, 1, 1) + 1, StatementAt(text, 2, 1) - 1)

\* The line terminators of a gap: CR LF, a lone LF and a lone CR end a line.
LineBreaks(gap) ==
    Cardinality({i \in 1..Len(gap) :
                    \/ gap[i] = CarriageReturn
                    \/ gap[i] = LineFeed /\ (i = 1 \/ gap[i - 1] # CarriageReturn)})

BlankLines(gap) == IF LineBreaks(gap) = 0 THEN 0 ELSE LineBreaks(gap) - 1

OnlyWhiteSpace(gap) == \A i \in 1..Len(gap) : gap[i] # Sentinel

\* C9: in every rewritten file two statements that were separated by blank
\* lines only are separated by as many blank lines in the text written back.
C9_BlankLinePreservation ==
    written # <<>> =>
        LET gap == GapOf(fileText)
        IN  (OnlyWhiteSpace(gap) /\ BlankLines(gap) >= 1)
                => BlankLines(GapOf(written)) = BlankLines(gap)

-----------------------------------------------------------------------------
(* The Run Driver: the pipelines of lines 91-113, one per indexed file.      *)
(* JavaScript runs one pipeline at a time and hands the thread over only at  *)
(* an await; `running` is the pipeline that holds the thread.                *)

MaxPipelines == 2

DriverFiles ==
    {[dirs |-> <<>>, name |-> <<"a">> \o ExtTs, type |-> "file"],
     [dirs |-> <<>>, name |-> <<"b">> \o ExtTsx, type |-> "file"],
     [dirs |-> <<<<"d">>>>, name |-> <<"a">> \o ExtTs, type |-> "file"],
     [dirs |-> <<NodeModules>>, name |-> <<"a">> \o ExtTs, type |-> "file"]}

Range(seq) == {seq[i] : i \in 1..Len(seq)}

DriverFileSystems ==
    {fs \in SubsetsUpTo(DriverFiles, MaxPipelines + 1) :
        /\ Len(Walk(fs, WorkingFolder, <<>>)) >= 1
        /\ Len(Walk(fs, WorkingFolder, <<>>)) <= MaxPipelines}

ImportB == Node("ImportDeclaration", <<>>, <<StringLiteral(DotSlashB)>>)

DriverTexts ==
    {<<ImportA, LineFeed, LineFeed, Statement, LineFeed>>,
     <<Statement, LineFeed, ImportB, LineFeed>>,
     <<ImportBare, LineFeed, Statement, LineFeed>>}

NoLocal == [file |-> <<>>, text |-> <<>>, source |-> Undefined, result |-> Undefined,
            printed |-> <<>>]

Final == {"fulfilled", "rejected"}

Init ==
    /\ fsTree \in DriverFileSystems
    /\ walkOut = <<>>
    /\ yielded = Walk(fsTree, WorkingFolder, <<>>)
    /\ visited = Range(yielded)
    /\ jsx \in BOOLEAN
    /\ prettierConfig \in BOOLEAN
    /\ disk \in {d \in [{PathOf(f) : f \in fsTree} -> DriverTexts] :
                    \A p \in DOMAIN d : p \notin visited => d[p] = <<ImportA, LineFeed>>}
    /\ currentVisitingFile = NoFile
    /\ hasUpdate = FALSE
    /\ pc = [f \in visited |-> "idle"]
    /\ local = [f \in visited |-> NoLocal]
    /\ running = NoFile
    /\ opened = <<>>
    /\ outcomes = <<>>
    /\ settled = FALSE
    /\ IdleR /\ IdleV /\ IdleT

\* The mutated schedule: the pipeline gives up the thread after every step.
SuspendsAlways(step) == TRUE

\* lines 93-110: the steps after which the pipeline awaits
Suspends(step) == step \in {"readFile", "import", "writeFile"}

\* The pipeline that holds the thread after pipeline f has done `step`.
After(step, f) == IF Suspends(step) THEN NoFile ELSE f

CanRun(f) == ~settled /\ running \in {NoFile, f}

\* The mutated aggregate: Promise.all, which rejects with the first rejection.
PromiseAll(status) ==
    \/ \E f \in DOMAIN status : status[f] = "rejected"
    \/ \A f \in DOMAIN status : status[f] = "fulfilled"

\* line 91: Promise.allSettled resolves once every promise has settled
PromiseAllSettled(status) == \A f \in DOMAIN status : status[f] \in Final

\* The mutated test: the file is written whether or not it changed.
NeverReturnEarly(update) == FALSE

\* line 104
ReturnEarly(update) == ~update

Settle(f, status) ==
    /\ pc' = [pc EXCEPT ![f] = status]
    /\ outcomes' = Append(outcomes, [path |-> f, status |-> status])

\* line 92: map() calls the async function on every path; each call runs up to
\* its first await, the readFile of line 93
MapPipelines ==
    /\ \A f \in visited : pc[f] = "idle"
    /\ ~settled
    /\ pc' = [f \in visited |-> "reading"]
    /\ running' = After("readFile", NoFile)
    /\ UNCHANGED <<varsG, varsR, varsW, varsV, varsT, prettierConfig, disk, local,
                   opened, outcomes, settled>>

\* lines 93-102: the file is read, the text parsed, the two shared variables set
ReadFileDone(f) ==
    /\ pc[f] = "reading"
    /\ CanRun(f)
    /\ LET text == ReplaceDoubleNewline(disk[f], 1)
       IN  local' = [local EXCEPT ![f] = [file |-> disk[f], text |-> text,
                                          source |-> CreateSourceFile(text),
                                          result |-> Undefined, printed |-> <<>>]]
    /\ hasUpdate' = FALSE
    /\ currentVisitingFile' = f
    /\ pc' = [pc EXCEPT ![f] = "transform"]
    /\ running' = After("prepare", f)
    /\ UNCHANGED <<visited, jsx, varsR, varsW, varsV, varsT, prettierConfig, disk,
                   opened, outcomes, settled>>

\* line 103: ts.transform(source, [transform])
TransformSource(f) ==
    /\ pc[f] = "transform"
    /\ CanRun(f)
    /\ LET r == Visit(local[f].source, currentVisitingFile, visited, jsx)
       IN  /\ hasUpdate' = (hasUpdate \/ r.hasUpdate)
           /\ local' = [local EXCEPT ![f].result = r.node]
    /\ pc' = [pc EXCEPT ![f] = "decide"]
    /\ running' = After("transform", f)
    /\ UNCHANGED <<visited, jsx, currentVisitingFile, varsR, varsW, varsV, varsT,
                   prettierConfig, disk, opened, outcomes, settled>>

\* lines 104-110: return when nothing changed; otherwise print, and either
\* await the import of the formatter or call writeFile
Decide(f) ==
    /\ pc[f] = "decide"
    /\ CanRun(f)
    /\ IF ReturnEarly(hasUpdate)
       THEN /\ Settle(f, "fulfilled")
            /\ UNCHANGED <<local, opened>>
       ELSE /\ local' = [local EXCEPT ![f].printed =
                            ReplaceSentinel(PrintFile(local[f].result, local[f].text))]
            /\ IF prettierConfig
               THEN /\ pc' = [pc EXCEPT ![f] = "importing"]
                    /\ UNCHANGED opened
               ELSE /\ pc' = [pc EXCEPT ![f] = "writing"]
                    /\ opened' = Append(opened, f)
            /\ UNCHANGED outcomes
    /\ running' = NoFile
    /\ UNCHANGED <<varsG, varsR, varsW, varsV, varsT, prettierConfig, disk, settled>>

RECURSIVE CollapseBlankLines(_, _)
\* the formatter keeps at most one blank line between two statements
CollapseBlankLines(text, i) ==
    IF i > Len(text) THEN <<>>
    ELSE IF i > 2 /\ text[i] = LineFeed /\ text[i - 1] = LineFeed /\ text[i - 2] = LineFeed
    THEN CollapseBlankLines(text, i + 1)
    ELSE <<text[i]>> \o CollapseBlankLines(text, i + 1)

\* line 108: prettier.format(printed, { ...prettierConfig, parser: 'typescript' }):
\* every statement starts its line, runs of blank lines shrink to one
Format(text) == CollapseBlankLines(SelectSeq(text, LAMBDA tok : tok # Space), 1)

\* lines 107-108: the formatter is loaded and writeFile called with its output
ImportDone(f) ==
    /\ pc[f] = "importing"
    /\ CanRun(f)
    /\ local' = [local EXCEPT ![f].printed = Format(local[f].printed)]
    /\ pc' = [pc EXCEPT ![f] = "writing"]
    /\ opened' = Append(opened, f)
    /\ running' = After("writeFile", f)
    /\ UNCHANGED <<varsG, varsR, varsW, varsV, varsT, prettierConfig, disk,
                   outcomes, settled>>

\* lines 108, 110: writeFile has replaced the file
WriteFileDone(f) ==
    /\ pc[f] = "writing"
    /\ CanRun(f)
    /\ disk' = [disk EXCEPT ![f] = local[f].printed]
    /\ Settle(f, "fulfilled")
    /\ running' = NoFile
    /\ UNCHANGED <<varsG, varsR, varsW, varsV, varsT, prettierConfig, local, opened,
                   settled>>

\* A step of the pipeline fails: readFile, import() or writeFile rejects, or
\* the parser, the transform, the printer or the formatter throws.  The async
\* function turns it into the rejection of the pipeline's promise.
Fail(f) ==
    /\ pc[f] \in {"reading", "transform", "decide", "importing", "writing"}
    /\ CanRun(f)
    /\ Settle(f, "rejected")
    /\ running' = NoFile
    /\ UNCHANGED <<varsG, varsR, varsW, varsV, varsT, prettierConfig, disk, local,
                   opened, settled>>

\* line 91: the awaited aggregate resolves and the program ends
AllSettled ==
    /\ ~settled
    /\ running = NoFile
    /\ \A f \in visited : pc[f] # "idle"
    /\ PromiseAllSettled(pc)
    /\ settled' = TRUE
    /\ UNCHANGED <<varsG, varsR, varsW, varsV, varsT, prettierConfig, disk, pc, local,
                   running, opened, outcomes>>

Next ==
    \/ MapPipelines
    \/ AllSettled
    \/ \E f \in visited :
          \/ Fail(f)
          \/ ReadFileDone(f)
          \/ TransformSource(f)
          \/ Decide(f)
          \/ ImportDone(f)
          \/ WriteFileDone(f)

Spec == Init /\ [][Next]_vars

\* Every I/O request completes and every continuation queued on the event
\* loop is run.
FairSpec == Spec /\ WF_vars(Next)

-----------------------------------------------------------------------------
(* Claims about the run driver, checked under Spec and FairSpec *)

\* What the transform of a file yields when nothing but the file, the Index and
\* the flag enters it: the file resolved against its own path.
OwnTransform(f) ==
    Visit(CreateSourceFile(ReplaceDoubleNewline(local[f].file, 1)), f, visited, jsx)

\* C2: under every interleaving, while a file is transformed and when its write
\* decision is taken, currentVisitingFile and hasUpdate hold the values set for
\* that file: the file is resolved against its own directory, and writeFile is
\* called for it exactly when one of its own specifiers was rewritten.
C2_NoInterference ==
    \A f \in visited :
        /\ pc[f] = "transform" => (currentVisitingFile = f /\ hasUpdate = FALSE)
        /\ pc[f] = "decide" =>
               /\ currentVisitingFile = f
               /\ hasUpdate = OwnTransform(f).hasUpdate
               /\ local[f].result = OwnTransform(f).node
        /\ (pc[f] = "importing" \/ f \in Range(opened)) => OwnTransform(f).hasUpdate
        /\ (pc[f] = "fulfilled" /\ f \notin Range(opened)) => ~OwnTransform(f).hasUpdate

\* C2 witness: a rewritten file is still being written while the pipeline of a
\* file without rewrites has run in between, reset hasUpdate and returned.
C2_Witness ==
    \E f \in visited, g \in visited :
        /\ f # g
        /\ pc[f] = "writing"
        /\ pc[g] = "fulfilled"
        /\ g \notin Range(opened)
        /\ currentVisitingFile = g
        /\ hasUpdate = FALSE

\* C3: whatever step of whichever pipelines fails, every pipeline is started
\* and settles, and the run ends once all of them have settled.
C3_FailureIsolation ==
    <>(settled /\ \A f \in visited : pc[f] \in Final)

\* C3 witness: the run has ended, the first pipeline to settle failed and a
\* pipeline that settled after it wrote its file.
C3_Witness ==
    /\ settled
    /\ Len(outcomes) >= 2
    /\ outcomes[1].status = "rejected"
    /\ \E i \in 2..Len(outcomes) :
           /\ outcomes[i].status = "fulfilled"
           /\ outcomes[i].path \in Range(opened)
           /\ disk[outcomes[i].path] = local[outcomes[i].path].printed

OriginalTexts == DriverTexts \cup {<<ImportA, LineFeed>>}

\* C4: writeFile is called only for a file of the Index whose transform rewrote
\* one of its specifiers, at most once per file; no other path is written or
\* created and a file writeFile was not called for keeps its text.
C4_NoOpSkip ==
    /\ \A i \in 1..Len(opened) :
           /\ opened[i] \in visited
           /\ local[opened[i]].result # local[opened[i]].source
           /\ \A j \in 1..Len(opened) : opened[j] = opened[i] => j = i
    /\ DOMAIN disk = {PathOf(f) : f \in fsTree}
    /\ \A p \in DOMAIN disk : p \notin Range(opened) => disk[p] \in OriginalTexts

\* C4 witness: the run has ended, one file was rewritten in place and another
\* file of the Index, without rewrites, was never passed to writeFile.
C4_Witness ==
    /\ settled
    /\ \E f \in visited, g \in visited :
           /\ f \in Range(opened) /\ disk[f] = local[f].printed /\ disk[f] # local[f].file
           /\ pc[g] = "fulfilled" /\ g \notin Range(opened) /\ disk[g] = local[g].file

-----------------------------------------------------------------------------
(* Claims about the resolver, checked under SpecResolve *)

RECURSIVE LastSlash(_, _)
LastSlash(s, i) == IF i = 0 THEN 0 ELSE IF s[i] = "/" THEN i ELSE LastSlash(s, i - 1)

\* The directory containing a file: its path up to the last separator.
DirOf(file) == SubSeq(file, 1, LastSlash(file, Len(file)) - 1)

\* The candidate of a specifier: the specifier resolved against that directory.
Candidate(file, spec) == Normalize(DirOf(file) \o Slash \o spec)

\* A name inside the directory the candidate names.
Inside(cand, name) ==
    (IF EndsWith(cand, Slash) THEN cand ELSE cand \o Slash) \o name

PassesEarlyOuts(spec) == StartsWith(spec, Dot) /\ ~EndsWith(spec, ExtJs)

\* The first Index form of the claimed order that a candidate matches.
FirstForm(cand, index) ==
    IF (cand \o ExtTs) \in index \/ (cand \o ExtDts) \in index THEN 1
    ELSE IF (cand \o ExtTsx) \in index THEN 2
    ELSE IF Inside(cand, IndexTs) \in index \/ Inside(cand, IndexDts) \in index THEN 3
    ELSE IF Inside(cand, IndexTsx) \in index THEN 4
    ELSE 0


\* C5: every specifier that passes the early-outs is resolved against the
\* directory containing the file and rewritten by the first matching form in the
\* order .ts/.d.ts, .tsx, /index.ts or /index.d.ts, /index.tsx, and is returned
\* unchanged when no form is in the Index; './a' becomes './a.js' when both
\* a.ts and a/index.ts are indexed and './a/index.js' when only a/index.ts is.
C5_ResolutionPriority ==
    \A i \in 1..Len(history) :
        LET spec == history[i].in
            form == FirstForm(Candidate(currentVisitingFile, spec), visited)
        IN  /\ PassesEarlyOuts(spec) =>
                /\ form = 1 => history[i].out = spec \o ExtJs
                /\ form = 2 => history[i].out \in {spec \o ExtJs, spec \o ExtJsx}
                /\ form = 3 => history[i].out = spec \o SlashIndexJs
                /\ form = 4 => history[i].out \in {spec \o SlashIndexJs,
                                                    spec \o SlashIndexJsx}
                /\ form = 0 => history[i].out = spec
                /\ history[i].hasUpdate = (form # 0)
            /\ (spec = DotSlashA /\ currentVisitingFile = HostM) =>
                /\ (FileATs \in visited /\ FileAIndexTs \in visited)
                       => history[i].out = DotSlashA \o ExtJs
                /\ visited = {HostM, FileAIndexTs}
                       => history[i].out = DotSlashA \o SlashIndexJs

\* C5 witness: './a' was resolved with both a.ts and a/index.ts in the Index.
C5_Witness ==
    /\ Len(history) >= 1
    /\ history[1].in = DotSlashA
    /\ currentVisitingFile = HostM
    /\ FileATs \in visited /\ FileAIndexTs \in visited
    /\ history[1].out = DotSlashA \o ExtJs

\* C6: the jsx flag decides the suffix exactly when the first matching form is
\* a .tsx form ('.js' or '/index.js' unset, '.jsx' or '/index.jsx' set); for a
\* first match on a .ts/.d.ts form and for an unchanged specifier the result is
\* the one the other flag value gives.
C6_JsxFlag ==
    \A i \in 1..Len(history) :
        LET spec == history[i].in
            form == FirstForm(Candidate(currentVisitingFile, spec), visited)
            other == UpdateImportPath(StringLiteral(spec), currentVisitingFile,
                                      visited, ~jsx).node.text
        IN  IF PassesEarlyOuts(spec) /\ form \in {2, 4}
            THEN /\ history[i].out # other
                 /\ form = 2 => history[i].out = spec \o (IF jsx THEN ExtJsx ELSE ExtJs)
                 /\ form = 4 => history[i].out =
                                    spec \o (IF jsx THEN SlashIndexJsx ELSE SlashIndexJs)
            ELSE /\ history[i].out = other
                 /\ ~EndsWith(history[i].out, ExtJsx) \/ history[i].out = spec

\* C6 witness: only a.tsx is indexed and './a' became './a.jsx' under the flag.
C6_Witness ==
    /\ Len(history) >= 1
    /\ jsx
    /\ visited = {HostM, FileATsx}
    /\ history[1].in = DotSlashA
    /\ history[1].out = DotSlashA \o ExtJsx

\* C7: a specifier that already ends in a resolved extension, '.js' or '.jsx',
\* is returned unchanged and does not set the changed flag, whatever the Index
\* holds.
C7_AlreadyResolvedUntouched ==
    \A i \in 1..Len(history) :
        (EndsWith(history[i].in, ExtJs) \/ EndsWith(history[i].in, ExtJsx)) =>
            /\ history[i].out = history[i].in
            /\ ~history[i].hasUpdate

\* C1: the second run of the tool on the folder the first run produced rewrites
\* no specifier and so writes no file.
C1_Idempotence ==
    \A i \in 2..Len(history) :
        /\ history[i].out = history[i].in
        /\ ~history[i].hasUpdate

====
